---- MODULE Spec2Model ----
(***************************************************************************)
(* A model of convertRmvbToMp4.py: the VideoConverter class that drives an *)
(* external ffmpeg process.  The model follows one call of                 *)
(* convert_rmvb_to_mp4 (or one call of batch_convert_rmvb_to_mp4, which    *)
(* calls it once per enumerated file) from its entry to its return, with   *)
(* the ffmpeg child, the two pipes, the primary thread and the background  *)
(* stderr reader thread of _run_ffmpeg_with_progress as separate actors.   *)
(* main is modelled around both, and the loop of the supervisor is also    *)
(* run on its own on given progress streams.                               *)
(*                                                                         *)
(* Conventions                                                             *)
(*   - a path is a triple <<directory, stem, extension>>; an extension is  *)
(*     a sequence of characters, so that lower-casing is computed;         *)
(*   - times and durations are counted in tenths of a second;              *)
(*   - a percentage is an exact rational <<numerator, denominator>>, so    *)
(*     that time / duration * 100 is compared without rounding (the float  *)
(*     rounding of the source is not modelled);                            *)
(*   - a text (stderr, a message) is a sequence of tokens.                 *)
(***************************************************************************)
EXTENDS Integers, Sequences, FiniteSets, TLC

(***************************************************************************)
(* Bounds of the model.                                                    *)
(***************************************************************************)
\* lines the child writes to its progress stream (stdout) in one run
MaxOutLines == 3
\* lines the child writes to its diagnostic stream (stderr) in one run
MaxErrLines == 2
\* lines an OS pipe holds before a write blocks
PipeCap == 1
\* lines of a progress stream that is given to the supervisor's loop whole
MaxThrottleLen == 3

None == "None"
\* an absent path argument (output_file=None)
NoPath == <<>>

(***************************************************************************)
(* Paths and the file system.                                              *)
(***************************************************************************)
ExtRmvb == <<"r", "m", "v", "b">>
ExtRMVB == <<"R", "M", "V", "B">>
ExtMixed == <<"R", "m", "v", "b">>
ExtMp4 == <<"m", "p", "4">>
ExtTxt == <<"t", "x", "t">>

\* str.lower() on one character
LowerChar(c) ==
    CASE c = "R" -> "r"
      [] c = "M" -> "m"
      [] c = "V" -> "v"
      [] c = "B" -> "b"
      [] OTHER -> c

\* str.lower()
Lower(s) == [i \in DOMAIN s |-> LowerChar(s[i])]

Dir(p) == p[1]
Stem(p) == p[2]
Suffix(p) == p[3]

\* Path.with_suffix
WithSuffix(p, ext) == <<Dir(p), Stem(p), ext>>

\* two names denote the same directory entry: byte-wise on a case-sensitive
\* file system, up to letter case on a case-insensitive one
SameEntry(p, q, sensitive) ==
    /\ Dir(p) = Dir(q)
    /\ Stem(p) = Stem(q)
    /\ IF sensitive THEN Suffix(p) = Suffix(q)
       ELSE Lower(Suffix(p)) = Lower(Suffix(q))

\* Path.exists for a file
Exists(p, files, sensitive) == \E q \in files : SameEntry(p, q, sensitive)

\* a check that never finds the input missing
InputMissing_Never(p, files, sensitive) == FALSE

\* line 212: not input_path.exists()
InputMissing(p, files, sensitive) == ~Exists(p, files, sensitive)

\* a check that forgets the existing output
OutputBlocked_Never(p, files, sensitive, ow) == FALSE

\* a check with the flag the wrong way round: exists() and overwrite
OutputBlocked_Inverted(p, files, sensitive, ow) == Exists(p, files, sensitive) /\ ow

\* line 226: output_path.exists() and not overwrite
OutputBlocked(p, files, sensitive, ow) == Exists(p, files, sensitive) /\ ~ow

(***************************************************************************)
(* Texts: a line is a sequence of tokens, a text their concatenation.      *)
(***************************************************************************)
RECURSIVE Join(_)
\* ''.join(lines)
Join(lines) == IF lines = <<>> THEN <<>> ELSE Head(lines) \o Join(Tail(lines))

\* the text x occurs in the text t
Contains(t, x) ==
    \E i \in 0..(Len(t) - Len(x)) : SubSeq(t, i + 1, i + Len(x)) = x

(***************************************************************************)
(* The progress stream.  A line of it carries an optional timestamp        *)
(* time=H:M:S (S in tenths of a second here) and an optional progress=     *)
(* marker.                                                                 *)
(***************************************************************************)
NoTime == <<>>
TimeLine(h, m, ds) == [time |-> <<h, m, ds>>, progress |-> "none"]
MarkerLine(v) == [time |-> NoTime, progress |-> v]

\* the lines the child may write to stdout
StdoutLines ==
    { TimeLine(0, 0, 5), TimeLine(0, 0, 30), TimeLine(0, 1, 30),
      MarkerLine("continue"), MarkerLine("end") }

\* the k-th line the child writes to stderr: the code never looks into the
\* diagnostic text, so the lines are told apart by their position only
StderrLine(k) == <<"E", k, "nl">>

\* _parse_ffmpeg_progress: whether the line holds a timestamp (the regular
\* expression matched) and hours * 3600 + minutes * 60 + seconds, here in
\* tenths of a second
ParseFfmpegProgress(line) ==
    IF line.time = NoTime THEN [matched |-> FALSE, seconds |-> 0]
    ELSE [matched |-> TRUE,
          seconds |-> line.time[1] * 36000 + line.time[2] * 600 + line.time[3]]

Min(a, b) == IF a <= b THEN a ELSE b

\* a percentage that is not clamped: (current_time / total_duration) * 100
ProgressOf_Unclamped(current_time, total_duration) == current_time * 100

\* min((current_time / total_duration) * 100, 100.0), as the numerator of a
\* fraction whose denominator is total_duration
ProgressOf(current_time, total_duration) ==
    Min(current_time * 100, 100 * total_duration)

\* a throttle on the distance instead of the advance: abs(progress - last)
Advanced_Abs(progress, last, total_duration) ==
    \/ progress - last >= total_duration
    \/ last - progress >= total_duration

\* a throttle that wants more than one point: progress - last > 1.0
Advanced_Strict(progress, last, total_duration) == progress - last > total_duration

\* progress - last_progress >= 1.0, both over the denominator total_duration
Advanced(progress, last, total_duration) == progress - last >= total_duration

\* 'progress=' in line and 'end' in line
IsEndMarker(line) == line.progress = "end"

\* a verdict that takes any exit code the child returned for success
Succeeded_AnyCode(res) == res.returncode >= 0

\* line 283: result.returncode == 0
Succeeded(res) == res.returncode = 0

(***************************************************************************)
(* Progress events, as the sink receives them.                             *)
(***************************************************************************)
Pct(n, d) == <<n, d>>
PctStart == Pct(0, 1)
PctDone == Pct(100, 1)
PctError == Pct(-1, 1)

RatLe(a, b) == a[1] * b[2] <= b[1] * a[2]

\* one invocation progress_callback(pct, message); msg names the message's
\* fixed part, text is the text formatted into it, raised whether the sink
\* raised instead of returning
Event(pct, msg, text, raised) ==
    [pct |-> pct, msg |-> msg, text |-> text, raised |-> raised]

\* what an invocation of the sink may do
SinkRaises(cb) == IF cb = "may_raise" THEN {FALSE, TRUE} ELSE {FALSE}

\* a terminal event that reports completion whatever the outcome
TerminalEvent_AlwaysDone(res, raised) == Event(PctDone, "done", <<>>, raised)

\* lines 283-292: the event after the supervisor returned, (100.0, done) on
\* exit code 0 and (-1, failed: stderr) otherwise
TerminalEvent(res, raised) ==
    IF Succeeded(res) THEN Event(PctDone, "done", <<>>, raised)
    ELSE Event(PctError, "failed", res.stderr, raised)

(***************************************************************************)
(* The ffmpeg command line.                                                *)
(***************************************************************************)
Arg(s) == <<s>>

quality_settings ==
    [q \in {"low", "medium", "high"} |->
        CASE q = "low" -> <<Arg("-crf"), Arg("28"), Arg("-preset"), Arg("fast")>>
          [] q = "medium" -> <<Arg("-crf"), Arg("23"), Arg("-preset"), Arg("medium")>>
          [] q = "high" -> <<Arg("-crf"), Arg("18"), Arg("-preset"), Arg("slow")>>]

\* quality falls back to 'medium' when it is not a key of the table
EffectiveQuality(q) == IF q \in DOMAIN quality_settings THEN q ELSE "medium"

\* the command convert_rmvb_to_mp4 builds
BuildCmd(input_path, q, ow, output_path) ==
    <<Arg("ffmpeg"), Arg("-i"), input_path, Arg("-c:v"), Arg("libx264"),
      Arg("-c:a"), Arg("aac")>>
    \o quality_settings[EffectiveQuality(q)]
    \o <<Arg("-movflags"), Arg("+faststart")>>
    \o (IF ow THEN <<Arg("-y")>> ELSE <<>>)
    \o <<output_path>>

\* cmd[:-1] + ['-progress', 'pipe:1'] + [cmd[-1]]
CmdWithProgress(c) ==
    SubSeq(c, 1, Len(c) - 1) \o <<Arg("-progress"), Arg("pipe:1")>>
    \o <<c[Len(c)]>>

HasArg(c, s) == \E i \in DOMAIN c : c[i] = Arg(s)

(***************************************************************************)
(* What the duration probe (ffprobe) may do, and what _get_video_duration  *)
(* makes of it.                                                            *)
(***************************************************************************)
ProbeFailures ==
    {"not_found", "nonzero_exit", "malformed", "no_duration", "timeout"}

\* durations ffprobe may report, in tenths of a second
ProbeDurations == {600}

ProbeOutcomes ==
    [kind : ProbeFailures, duration : {0}] \cup [kind : {"ok"}, duration : ProbeDurations]

\* _get_video_duration: the duration, None on every failure
GetVideoDuration(outcome) ==
    IF outcome.kind = "ok" THEN [known |-> TRUE, value |-> outcome.duration]
    ELSE [known |-> FALSE, value |-> 0]

(***************************************************************************)
(* State.                                                                  *)
(***************************************************************************)
VARIABLES
    \* the environment
    fs,                 \* the files that exist
    dirs,               \* the directories that exist
    denied,             \* the paths whose stat fails other than with "not found"
    caseSensitive,      \* whether the platform tells letter case apart in names
    atCall,             \* fs and dirs as they were when the call was made
    \* the arguments and locals of the running convert_rmvb_to_mp4
    pc,                 \* where the primary thread is
    input_file, output_file, quality, overwrite, progress_callback,
    total_duration, cmd, exc, retval,
    probed,             \* how the duration probe ended: none, failed, ok
    \* _run_ffmpeg_with_progress
    childState,         \* none, running, blocked_out, blocked_err, exited
    returncode,         \* the child's exit code once it exited
    outPipe, errPipe,   \* lines written and not yet read
    nOut,               \* lines the child wrote to stdout
    errWritten,         \* lines the child wrote to stderr, in order
    readerState,        \* the stderr thread: none, running, done
    stderr_output, last_progress, result,
    \* what an observer of the call sees
    sinkLog,            \* the sink's invocations, in order
    probeCalls,         \* invocations of _get_video_duration
    launched,           \* the command lines handed to Popen that started
    mkdirs,             \* directories mkdir was called on
    \* the arguments and locals of the running batch_convert_rmvb_to_mp4
    bpc,                \* where the batch is
    input_dir, output_dir,
    rmvb_files, idx, successful_conversions,
    calls,              \* its calls of convert_rmvb_to_mp4, in order
    \* the running main
    mpc,                \* where main is: idle, single, batch, exited
    exit_code           \* the exit code of the process once it ended (-1 before)

envVars == <<fs, dirs, denied, caseSensitive, atCall>>
argVars == <<input_file, output_file, quality, overwrite, progress_callback>>
localVars == <<total_duration, probed, cmd, exc, retval>>
childVars == <<childState, returncode, outPipe, errPipe, nOut, errWritten>>
superVars == <<readerState, stderr_output, last_progress, result>>
obsVars == <<sinkLog, probeCalls, launched, mkdirs>>
batchVars ==
    <<bpc, input_dir, output_dir, rmvb_files, idx, successful_conversions, calls>>
mainVars == <<mpc, exit_code>>
vars ==
    <<envVars, pc, argVars, localVars, childVars, superVars, obsVars, batchVars,
      mainVars>>

NoResult == [returncode |-> -1, stderr |-> <<>>]

InputFile == <<"in", "a", ExtRmvb>>
GivenOutput == <<"out", "a", ExtMp4>>
Qualities == {"high", "ultra"}
Sinks == {None, "returns", "may_raise"}
ExitCodes == {0, 1}

\* a file lies in a directory that exists
WellFormed(files, directories) ==
    /\ \A f \in files : Dir(f) \in directories

Init ==
    /\ fs = {}
    /\ dirs = {}
    /\ denied = {}
    /\ caseSensitive = TRUE
    /\ atCall = [fs |-> {}, dirs |-> {}]
    /\ pc = "idle"
    /\ input_file = NoPath /\ output_file = NoPath /\ quality = None
    /\ overwrite = FALSE /\ progress_callback = None
    /\ total_duration = 0 /\ probed = "none" /\ cmd = <<>> /\ exc = None /\ retval = None
    /\ childState = "none" /\ returncode = -1
    /\ outPipe = <<>> /\ errPipe = <<>> /\ nOut = 0 /\ errWritten = <<>>
    /\ readerState = "none" /\ stderr_output = <<>> /\ last_progress = 0
    /\ result = NoResult
    /\ sinkLog = <<>> /\ probeCalls = 0 /\ launched = <<>> /\ mkdirs = {}
    /\ bpc = "idle" /\ input_dir = None /\ output_dir = None
    /\ rmvb_files = <<>> /\ idx = 0 /\ successful_conversions = <<>>
    /\ calls = <<>>
    /\ mpc = "idle" /\ exit_code = -1

\* output_path of the running call: the given one, or the input with .mp4
OutputPath ==
    IF output_file = NoPath THEN WithSuffix(input_file, ExtMp4) ELSE output_file

(***************************************************************************)
(* convert_rmvb_to_mp4, step by step.                                      *)
(***************************************************************************)
\* the call itself: a caller binds the arguments, and each file and
\* directory the call names exists or not
CallConvert ==
    /\ pc = "idle"
    /\ input_file' = InputFile
    /\ output_file' \in {NoPath, GivenOutput}
    /\ quality' \in Qualities
    /\ overwrite' \in BOOLEAN
    /\ progress_callback' \in Sinks
    /\ LET out == IF output_file' = NoPath THEN WithSuffix(InputFile, ExtMp4)
                  ELSE output_file'
       IN  /\ fs' \in SUBSET {InputFile, out}
           /\ dirs' \in SUBSET {Dir(InputFile), Dir(out)}
           /\ denied' \in SUBSET {InputFile, out}
           /\ WellFormed(fs', dirs')
    /\ atCall' = [fs |-> fs', dirs |-> dirs']
    /\ pc' = "check_input"
    /\ UNCHANGED <<caseSensitive, localVars, childVars, superVars, obsVars, batchVars, mainVars>>

\* the call is over: it returned a value or an exception left it
Done == pc \in {"returned", "raised"}

\* a return statement of convert_rmvb_to_mp4
Return(value) ==
    /\ retval' = value
    /\ pc' = "returned"

\* lines 211-214: input_path.exists(); Path.exists re-raises an OSError that
\* is not a plain "no such file" (PermissionError)
CheckInput ==
    /\ pc = "check_input"
    /\ IF input_file \in denied
       THEN /\ pc' = "raised"
            /\ exc' = "PermissionError"
            /\ UNCHANGED retval
       ELSE /\ IF InputMissing(input_file, fs, caseSensitive)
               THEN Return("False")
               ELSE pc' = "check_output" /\ UNCHANGED retval
            /\ UNCHANGED exc
    /\ UNCHANGED <<envVars, argVars, batchVars, mainVars, total_duration, probed, cmd, childVars, superVars, obsVars>>

\* lines 216-228: the output path and its check
CheckOutput ==
    /\ pc = "check_output"
    /\ IF OutputPath \in denied
       THEN /\ pc' = "raised"
            /\ exc' = "PermissionError"
            /\ UNCHANGED retval
       ELSE /\ IF OutputBlocked(OutputPath, fs, caseSensitive, overwrite)
               THEN Return("False")
               ELSE pc' = "mkdir" /\ UNCHANGED retval
            /\ UNCHANGED exc
    /\ UNCHANGED <<envVars, argVars, batchVars, mainVars, total_duration, probed, cmd, childVars, superVars, obsVars>>

\* line 231: output_path.parent.mkdir(parents=True, exist_ok=True), which
\* raises when the directory cannot be made
Mkdir ==
    /\ pc = "mkdir"
    /\ mkdirs' = mkdirs \cup {Dir(OutputPath)}
    /\ \/ /\ Dir(OutputPath) \notin dirs
          /\ pc' = "raised"
          /\ exc' = "OSError"
          /\ UNCHANGED dirs
       \/ /\ dirs' = dirs \cup {Dir(OutputPath)}
          /\ pc' = "probe"
          /\ UNCHANGED exc
    /\ UNCHANGED <<fs, denied, caseSensitive, atCall, argVars, batchVars, mainVars, total_duration, probed, cmd,
                   retval, childVars, superVars, sinkLog, probeCalls, launched>>

\* lines 235-238: the duration probe; None becomes 0
Probe ==
    /\ pc = "probe"
    /\ probeCalls' = probeCalls + 1
    /\ \E outcome \in ProbeOutcomes :
         LET d == GetVideoDuration(outcome)
         IN  /\ total_duration' = IF d.known THEN d.value ELSE 0
             /\ probed' = IF outcome.kind \in ProbeFailures THEN "failed" ELSE "ok"
    /\ pc' = "build"
    /\ UNCHANGED <<envVars, argVars, batchVars, mainVars, cmd, exc, retval, childVars, superVars,
                   sinkLog, launched, mkdirs>>

\* lines 241-267: the command line
Build ==
    /\ pc = "build"
    /\ cmd' = BuildCmd(input_file, quality, overwrite, OutputPath)
    /\ pc' = "sink0"
    /\ UNCHANGED <<envVars, argVars, batchVars, mainVars, total_duration, probed, exc, retval, childVars, superVars,
                   obsVars>>

\* lines 273-274: the 0% event
SinkStart ==
    /\ pc = "sink0"
    /\ IF progress_callback = None
       THEN /\ pc' = "popen"
            /\ UNCHANGED <<sinkLog, exc>>
       ELSE \E raised \in SinkRaises(progress_callback) :
              /\ sinkLog' = Append(sinkLog, Event(PctStart, "start", <<>>, raised))
              /\ IF raised
                 THEN pc' = "except" /\ exc' = "SinkError"
                 ELSE pc' = "popen" /\ UNCHANGED exc
    /\ UNCHANGED <<envVars, argVars, batchVars, mainVars, total_duration, probed, cmd, retval, childVars, superVars,
                   probeCalls, launched, mkdirs>>

\* lines 124-152: Popen (which raises OSError when the child cannot be
\* started), the stderr thread's start, last_progress = 0.0
Popen ==
    /\ pc = "popen"
    /\ \/ /\ pc' = "except"
          /\ exc' = "OSError"
          /\ UNCHANGED <<childState, readerState, launched>>
       \/ /\ childState' = "running"
          /\ readerState' = "running"
          /\ launched' = Append(launched, CmdWithProgress(cmd))
          /\ pc' = "read"
          /\ UNCHANGED exc
    /\ stderr_output' = <<>>
    /\ last_progress' = 0
    /\ UNCHANGED <<envVars, argVars, batchVars, mainVars, total_duration, probed, cmd, retval, returncode, outPipe,
                   errPipe, nOut, errWritten, result, sinkLog, probeCalls, mkdirs>>

\* lines 153-174: one turn of the loop over process.stdout.readline()
ReadLine ==
    /\ pc = "read"
    /\ \/ \* '' at end of stream: the pipe is empty and the child closed it
          /\ outPipe = <<>>
          /\ childState = "exited"
          /\ pc' = "wait"
          /\ UNCHANGED <<outPipe, last_progress, sinkLog, exc>>
       \/ /\ outPipe # <<>>
          /\ outPipe' = Tail(outPipe)
          /\ LET line == Head(outPipe)
                 current_time == ParseFfmpegProgress(line)
                 progress == ProgressOf(current_time.seconds, total_duration)
                 after == IF IsEndMarker(line) THEN "wait" ELSE "read"
             IN  IF /\ current_time.matched
                    /\ total_duration > 0
                    /\ Advanced(progress, last_progress, total_duration)
                 THEN IF progress_callback = None
                      THEN /\ last_progress' = progress
                           /\ pc' = after
                           /\ UNCHANGED <<sinkLog, exc>>
                      ELSE \E raised \in SinkRaises(progress_callback) :
                             /\ sinkLog' = Append(sinkLog,
                                    Event(Pct(progress, total_duration), "progress",
                                          <<>>, raised))
                             /\ IF raised
                                THEN /\ pc' = "except"
                                     /\ exc' = "SinkError"
                                     /\ UNCHANGED last_progress
                                ELSE /\ last_progress' = progress
                                     /\ pc' = after
                                     /\ UNCHANGED exc
                 ELSE /\ pc' = after
                      /\ UNCHANGED <<last_progress, sinkLog, exc>>
    /\ UNCHANGED <<envVars, argVars, batchVars, mainVars, total_duration, probed, cmd, retval, childState, returncode,
                   errPipe, nOut, errWritten, readerState, stderr_output, result,
                   probeCalls, launched, mkdirs>>

\* line 177: process.wait() returns once the child has exited
Wait ==
    /\ pc = "wait"
    /\ childState = "exited"
    /\ pc' = "join"
    /\ UNCHANGED <<envVars, argVars, batchVars, mainVars, localVars, childVars, superVars, obsVars>>

\* lines 179-187: stderr_thread.join(timeout=1) returns when the thread has
\* finished or when the second is over, and the Result is built from what
\* stderr_output holds then
JoinReader ==
    /\ pc = "join"
    /\ readerState \in {"running", "done"}
    /\ result' = [returncode |-> returncode, stderr |-> Join(stderr_output)]
    /\ pc' = "interpret"
    /\ UNCHANGED <<envVars, argVars, batchVars, mainVars, localVars, childVars, readerState, stderr_output,
                   last_progress, obsVars>>

\* lines 283-292: the verdict and the terminal event
Interpret ==
    /\ pc = "interpret"
    /\ LET ok == Succeeded(result)
           ev(raised) == TerminalEvent(result, raised)
       IN  IF progress_callback = None
           THEN /\ Return(IF ok THEN "True" ELSE "False")
                /\ UNCHANGED <<sinkLog, exc>>
           ELSE \E raised \in SinkRaises(progress_callback) :
                  /\ sinkLog' = Append(sinkLog, ev(raised))
                  /\ IF raised
                     THEN pc' = "except" /\ exc' = "SinkError" /\ UNCHANGED retval
                     ELSE Return(IF ok THEN "True" ELSE "False") /\ UNCHANGED exc
    /\ UNCHANGED <<envVars, argVars, batchVars, mainVars, total_duration, probed, cmd, childVars, superVars,
                   probeCalls, launched, mkdirs>>

\* lines 294-303: the handlers of the try block; an exception a handler's
\* own sink call raises leaves convert_rmvb_to_mp4
Except ==
    /\ pc = "except"
    /\ LET msg == IF exc = "TimeoutExpired" THEN "timeout" ELSE "error"
       IN  IF progress_callback = None
           THEN /\ Return("False")
                /\ UNCHANGED sinkLog
           ELSE \E raised \in SinkRaises(progress_callback) :
                  /\ sinkLog' = Append(sinkLog, Event(PctError, msg, <<exc>>, raised))
                  /\ IF raised
                     THEN pc' = "raised" /\ UNCHANGED retval
                     ELSE Return("False")
    /\ UNCHANGED <<envVars, argVars, batchVars, mainVars, total_duration, probed, cmd, exc, childVars, superVars,
                   probeCalls, launched, mkdirs>>

(***************************************************************************)
(* The stderr thread (read_stderr, lines 138-144).                         *)
(***************************************************************************)
ReadStderr ==
    /\ readerState = "running"
    /\ \/ /\ errPipe # <<>>
          /\ stderr_output' = Append(stderr_output, Head(errPipe))
          /\ errPipe' = Tail(errPipe)
          /\ UNCHANGED readerState
       \/ /\ errPipe = <<>>
          /\ childState = "exited"
          /\ readerState' = "done"
          /\ UNCHANGED <<stderr_output, errPipe>>
    /\ UNCHANGED <<envVars, pc, argVars, batchVars, mainVars, localVars, childState, returncode, outPipe,
                   nOut, errWritten, last_progress, result, obsVars>>

(***************************************************************************)
(* The ffmpeg child process.  A write to a full pipe blocks the child      *)
(* until a reader has made room.                                           *)
(***************************************************************************)
ChildWriteOut ==
    /\ nOut < MaxOutLines
    /\ \/ /\ childState = "running"
          /\ Len(outPipe) >= PipeCap
          /\ childState' = "blocked_out"
          /\ UNCHANGED <<outPipe, nOut>>
       \/ /\ childState \in {"running", "blocked_out"}
          /\ Len(outPipe) < PipeCap
          /\ \E line \in StdoutLines : outPipe' = Append(outPipe, line)
          /\ nOut' = nOut + 1
          /\ childState' = "running"
    /\ UNCHANGED <<envVars, pc, argVars, batchVars, mainVars, localVars, returncode, errPipe, errWritten,
                   superVars, obsVars>>

ChildWriteErr ==
    /\ Len(errWritten) < MaxErrLines
    /\ \/ /\ childState = "running"
          /\ Len(errPipe) >= PipeCap
          /\ childState' = "blocked_err"
          /\ UNCHANGED <<errPipe, errWritten>>
       \/ /\ childState \in {"running", "blocked_err"}
          /\ Len(errPipe) < PipeCap
          /\ LET line == StderrLine(Len(errWritten) + 1)
             IN  /\ errPipe' = Append(errPipe, line)
                 /\ errWritten' = Append(errWritten, line)
          /\ childState' = "running"
    /\ UNCHANGED <<envVars, pc, argVars, batchVars, mainVars, localVars, returncode, outPipe, nOut,
                   superVars, obsVars>>

\* the child ends: its exit code is set, its ends of the pipes close, and on
\* success the output file is there
ChildExit ==
    /\ childState = "running"
    /\ \E code \in ExitCodes :
         /\ returncode' = code
         /\ fs' = IF code = 0 THEN fs \cup {launched[Len(launched)][Len(launched[Len(launched)])]}
                  ELSE fs
    /\ childState' = "exited"
    /\ UNCHANGED <<dirs, denied, caseSensitive, atCall, pc, argVars, batchVars, mainVars, localVars,
                   outPipe, errPipe, nOut, errWritten, superVars, obsVars>>

\* the steps of a call that was made: of the primary thread, of the stderr
\* thread and of the child
ConvertSteps ==
    \/ CheckInput \/ CheckOutput \/ Mkdir \/ Probe \/ Build \/ SinkStart
    \/ Popen \/ ReadLine \/ Wait \/ JoinReader \/ Interpret \/ Except
    \/ ReadStderr
    \/ ChildWriteOut \/ ChildWriteErr \/ ChildExit

Next == CallConvert \/ ConvertSteps

Spec == Init /\ [][Next]_vars

\* the steps of the primary thread
PrimarySteps ==
    \/ CheckInput \/ CheckOutput \/ Mkdir \/ Probe \/ Build \/ SinkStart
    \/ Popen \/ ReadLine \/ Wait \/ JoinReader \/ Interpret \/ Except

\* fair scheduling: a thread that can take a step takes one in the end, the
\* child completes a write once the pipe has room, and a child that is not
\* blocked exits after finitely many writes
Fairness ==
    /\ WF_vars(PrimarySteps)
    /\ WF_vars(ReadStderr)
    /\ WF_vars(ChildWriteOut)
    /\ WF_vars(ChildWriteErr)
    /\ WF_vars(ChildExit)

SpecFair == Spec /\ Fairness

(***************************************************************************)
(* convert_rmvb_to_mp4 as one step.  batch_convert_rmvb_to_mp4 calls it    *)
(* and waits for it, so the batch sees of a call only what it leaves       *)
(* behind: the value returned (or the exception), the files, the           *)
(* directories and the events sent to the sink.  ConvertOutcomes is the    *)
(* set of these for a call that ends, read off lines 210-303 for no sink   *)
(* (None) and for a sink that returns normally; SummaryAgrees checks it    *)
(* against the step-by-step actions above.                                 *)
(***************************************************************************)
Outcome(ret, files, directories, probes, started, made, events) ==
    [ret |-> ret, fs |-> files, dirs |-> directories, probes |-> probes,
     launched |-> started, mkdirs |-> made, events |-> events]

RECURSIVE LoopEvents(_, _, _)
\* lines 153-170 on the lines read: the percentage events sent, last being
\* last_progress before the first of the lines
LoopEvents(lines, d, last) ==
    IF lines = <<>> THEN <<>>
    ELSE LET current_time == ParseFfmpegProgress(Head(lines))
             progress == ProgressOf(current_time.seconds, d)
         IN  IF current_time.matched /\ d > 0 /\ Advanced(progress, last, d)
             THEN <<Event(Pct(progress, d), "progress", <<>>, FALSE)>>
                  \o LoopEvents(Tail(lines), d, progress)
             ELSE LoopEvents(Tail(lines), d, last)

\* the lines the loop may have read when it ends: what the child wrote up to
\* its exit, or up to the first end marker
StreamsRead ==
    { s \in UNION { [1..n -> StdoutLines] : n \in 0..MaxOutLines } :
        \A i \in 1..(Len(s) - 1) : ~IsEndMarker(s[i]) }

\* what stderr_output may hold when the Result is built: the first lines of
\* what the child wrote
StderrTexts == { Join([i \in 1..j |-> StderrLine(i)]) : j \in 0..MaxErrLines }

\* the values total_duration may take after the probe
DurationsUsed ==
    { IF GetVideoDuration(o).known THEN GetVideoDuration(o).value ELSE 0 :
        o \in ProbeOutcomes }

\* the event sequences of a call whose child ran and exited with code
RunEvents(cb, code) ==
    IF cb = None THEN {<<>>}
    ELSE { <<Event(PctStart, "start", <<>>, FALSE)>>
             \o LoopEvents(s, d, 0)
             \o <<TerminalEvent([returncode |-> code, stderr |-> text], FALSE)>> :
           s \in StreamsRead, d \in DurationsUsed, text \in StderrTexts }

\* the events of a call whose Popen raised
PopenFailedEvents(cb) ==
    IF cb = None THEN <<>>
    ELSE << Event(PctStart, "start", <<>>, FALSE),
            Event(PctError, "error", <<"OSError">>, FALSE) >>

ConvertOutcomes(inp, outArg, q, ow, cb, files, directories, noaccess, sensitive) ==
    LET out == IF outArg = NoPath THEN WithSuffix(inp, ExtMp4) ELSE outArg
        parent == Dir(out)
        made == directories \cup {parent}
        started == <<CmdWithProgress(BuildCmd(inp, q, ow, out))>>
    IN  IF inp \in noaccess
        THEN {Outcome("raised", files, directories, 0, <<>>, {}, <<>>)}
        ELSE IF InputMissing(inp, files, sensitive)
        THEN {Outcome("False", files, directories, 0, <<>>, {}, <<>>)}
        ELSE IF out \in noaccess
        THEN {Outcome("raised", files, directories, 0, <<>>, {}, <<>>)}
        ELSE IF OutputBlocked(out, files, sensitive, ow)
        THEN {Outcome("False", files, directories, 0, <<>>, {}, <<>>)}
        ELSE \* mkdir raises
             (IF parent \in directories THEN {}
              ELSE {Outcome("raised", files, directories, 0, <<>>, {parent}, <<>>)})
             \cup \* Popen raises, the handler returns False
             {Outcome("False", files, made, 1, <<>>, {parent}, PopenFailedEvents(cb))}
             \cup \* the child ran and exited
             UNION { { Outcome(IF Succeeded([returncode |-> code, stderr |-> <<>>])
                               THEN "True" ELSE "False",
                               IF code = 0 THEN files \cup {out} ELSE files,
                               made, 1, started, {parent}, events) :
                       events \in RunEvents(cb, code) } : code \in ExitCodes }

\* the step-by-step model of a call without a sink, or with a sink that
\* returns, ends as the summary says
SummaryAgrees ==
    (Done /\ progress_callback \in {None, "returns"})
      => Outcome(IF pc = "raised" THEN "raised" ELSE retval, fs, dirs, probeCalls,
                 launched, mkdirs, sinkLog)
           \in ConvertOutcomes(input_file, output_file, quality, overwrite,
                               progress_callback, atCall.fs, atCall.dirs, denied,
                               caseSensitive)

(***************************************************************************)
(* batch_convert_rmvb_to_mp4.                                              *)
(***************************************************************************)
\* the files a directory of a batch run may hold
BatchInputs ==
    { <<"in", "a", ExtRmvb>>, <<"in", "b", ExtRMVB>>, <<"in", "c", ExtMixed>>,
      <<"in", "d", ExtTxt>> }

\* Path.glob("*" + "." + ext) in directory dir: the names that end in the
\* extension, compared as the platform compares names
Glob(dir, ext, files, sensitive) ==
    { f \in files : /\ Dir(f) = dir
                    /\ IF sensitive THEN Suffix(f) = ext
                       ELSE Lower(Suffix(f)) = Lower(ext) }

\* the orders in which a directory may list the files of S
Orders(S) ==
    { o \in [1..Cardinality(S) -> S] : \A i, j \in DOMAIN o : i # j => o[i] # o[j] }

\* list(glob("*.rmvb")) + list(glob("*.RMVB")), both in the directory's order
RmvbFiles(dir, files, sensitive, order) ==
    LET lower == Glob(dir, ExtRmvb, files, sensitive)
        upper == Glob(dir, ExtRMVB, files, sensitive)
        InLower(f) == f \in lower
        InUpper(f) == f \in upper
    IN  SelectSeq(order, InLower) \o SelectSeq(order, InUpper)

\* a collection that takes the output whatever the call returned
Collected_Always(successes, output, ret) == Append(successes, output)

\* lines 351-357: the output path is kept when the call returned True
Collected(successes, output, ret) ==
    IF ret = "True" THEN Append(successes, output) ELSE successes

\* a batch that hands its own sink on to the calls
ForwardedSink_Given(cb) == cb

\* lines 351-356: the call names quality and overwrite only, so the call's
\* progress_callback is its default, None, whatever sink the batch was given
ForwardedSink(cb) == None

\* the effective output directory (lines 331-332)
OutputDir == IF output_dir = None THEN input_dir ELSE output_dir

\* the call itself: a caller binds the arguments, and the directories hold
\* what they hold
CallBatch ==
    /\ bpc = "idle"
    /\ input_dir' = "in"
    /\ output_dir' \in {None, "out"}
    /\ quality' \in Qualities
    /\ overwrite' \in BOOLEAN
    /\ progress_callback' \in Sinks
    /\ caseSensitive' \in BOOLEAN
    /\ LET outdir == IF output_dir' = None THEN input_dir' ELSE output_dir'
       IN  /\ fs' \in SUBSET (BatchInputs \cup {<<outdir, "a", ExtMp4>>})
           /\ dirs' \in SUBSET {"in", "out"}
           /\ WellFormed(fs', dirs')
    /\ denied' \in SUBSET (fs' \cap {<<"in", "b", ExtRMVB>>})
    /\ atCall' = [fs |-> fs', dirs |-> dirs']
    /\ bpc' = "start"
    /\ UNCHANGED <<pc, input_file, output_file, localVars, childVars, superVars,
                   obsVars, rmvb_files, idx, successful_conversions, calls,
                   mainVars>>

\* lines 326-346: the directory checks, the output directory, the listing
BatchStart ==
    /\ bpc = "start"
    /\ IF input_dir \notin dirs
       THEN \* return []
            /\ bpc' = "done"
            /\ UNCHANGED <<dirs, rmvb_files, idx>>
       ELSE \/ \* output_path.mkdir raises
               /\ OutputDir \notin dirs
               /\ bpc' = "raised"
               /\ UNCHANGED <<dirs, rmvb_files, idx>>
            \/ /\ dirs' = dirs \cup {OutputDir}
               /\ \E order \in Orders({f \in fs : Dir(f) = input_dir}) :
                    rmvb_files' = RmvbFiles(input_dir, fs, caseSensitive, order)
               /\ bpc' = IF rmvb_files' = <<>> THEN "done" ELSE "loop"
               /\ idx' = 1
    /\ UNCHANGED <<fs, denied, caseSensitive, atCall, pc, argVars, localVars, childVars,
                   superVars, obsVars, input_dir, output_dir, successful_conversions,
                   calls, mainVars>>

\* lines 348-357: one turn of the loop, the call of convert_rmvb_to_mp4
\* (without progress_callback) included
BatchConvert ==
    /\ bpc = "loop"
    /\ idx <= Len(rmvb_files)
    /\ LET rmvb_file == rmvb_files[idx]
           out == <<OutputDir, Stem(rmvb_file), ExtMp4>>
       IN  \E o \in ConvertOutcomes(rmvb_file, out, quality, overwrite,
                                    ForwardedSink(progress_callback), fs, dirs,
                                    denied, caseSensitive) :
             /\ fs' = o.fs
             /\ dirs' = o.dirs
             /\ sinkLog' = sinkLog \o o.events
             /\ calls' = Append(calls, [input |-> rmvb_file, output |-> out,
                                        ret |-> o.ret])
             /\ IF o.ret = "raised"
                THEN /\ bpc' = "raised"
                     /\ UNCHANGED <<idx, successful_conversions>>
                ELSE /\ successful_conversions' =
                            Collected(successful_conversions, out, o.ret)
                     /\ idx' = idx + 1
                     /\ UNCHANGED bpc
    /\ UNCHANGED <<denied, caseSensitive, atCall, pc, argVars, localVars, childVars,
                   superVars, probeCalls, launched, mkdirs, input_dir, output_dir,
                   rmvb_files, mainVars>>

\* lines 359-360: return successful_conversions
BatchReturn ==
    /\ bpc = "loop"
    /\ idx > Len(rmvb_files)
    /\ bpc' = "done"
    /\ UNCHANGED <<envVars, pc, argVars, localVars, childVars, superVars, obsVars,
                   input_dir, output_dir, rmvb_files, idx, successful_conversions,
                   calls, mainVars>>

\* the environment: while the batch runs, another process removes the
\* listed file a.rmvb
InputVanishes ==
    /\ bpc = "loop"
    /\ <<"in", "a", ExtRmvb>> \in fs
    /\ fs' = fs \ {<<"in", "a", ExtRmvb>>}
    /\ UNCHANGED <<dirs, denied, caseSensitive, atCall, pc, argVars, localVars,
                   childVars, superVars, obsVars, batchVars, mainVars>>

\* the steps of a batch that was called
BatchSteps == BatchStart \/ BatchConvert \/ BatchReturn \/ InputVanishes

NextBatch == CallBatch \/ BatchSteps

SpecBatch == Init /\ [][NextBatch]_vars

(***************************************************************************)
(* The loop of _run_ffmpeg_with_progress on a given progress stream: the   *)
(* child has written all its lines and exited with 0, the stderr thread    *)
(* has finished, and the primary thread reads the lines one after the      *)
(* other.  The capacity of the pipe is not the subject here.               *)
(***************************************************************************)
\* a duration of 100 s, in tenths of a second
ThrottleDuration == 1000

\* timestamps that are 0, 0.4, 0.9, 1.0, 1.2, 2.5, 2.6, 100 and 120 percent
\* of ThrottleDuration, and a line without a timestamp
ThrottleLines ==
    { TimeLine(0, 0, 0), TimeLine(0, 0, 4), TimeLine(0, 0, 9), TimeLine(0, 0, 10),
      TimeLine(0, 0, 12), TimeLine(0, 0, 25), TimeLine(0, 0, 26),
      TimeLine(0, 1, 400), TimeLine(0, 2, 0),
      MarkerLine("continue") }

\* the stream with the raw percentages 0, 0.4, 0.9, 1.2, 2.5, 2.6
ExampleLines ==
    << TimeLine(0, 0, 0), TimeLine(0, 0, 4), TimeLine(0, 0, 9), TimeLine(0, 0, 12),
       TimeLine(0, 0, 25), TimeLine(0, 0, 26) >>

\* the streams given: every stream of up to MaxThrottleLen lines, and the
\* example
ThrottleInputs ==
    UNION { [1..n -> ThrottleLines] : n \in 0..MaxThrottleLen } \cup {ExampleLines}

\* the state in which the loop of lines 153-174 starts on a stream
InitThrottle ==
    /\ fs = {InputFile, WithSuffix(InputFile, ExtMp4)}
    /\ dirs = {Dir(InputFile)}
    /\ denied = {}
    /\ caseSensitive = TRUE
    /\ atCall = [fs |-> {InputFile}, dirs |-> {Dir(InputFile)}]
    /\ pc = "read"
    /\ input_file = InputFile /\ output_file = NoPath /\ quality = "high"
    /\ overwrite = FALSE /\ progress_callback = "returns"
    /\ total_duration = ThrottleDuration /\ probed = "ok"
    /\ cmd = BuildCmd(InputFile, "high", FALSE, WithSuffix(InputFile, ExtMp4))
    /\ exc = None /\ retval = None
    /\ childState = "exited" /\ returncode = 0
    /\ outPipe \in ThrottleInputs
    /\ errPipe = <<>> /\ nOut = Len(outPipe) /\ errWritten = <<>>
    /\ readerState = "done" /\ stderr_output = <<>> /\ last_progress = 0
    /\ result = NoResult
    /\ sinkLog = <<Event(PctStart, "start", <<>>, FALSE)>>
    /\ probeCalls = 1
    /\ launched = <<CmdWithProgress(cmd)>>
    /\ mkdirs = {Dir(InputFile)}
    /\ bpc = "idle" /\ input_dir = None /\ output_dir = None
    /\ rmvb_files = <<>> /\ idx = 0 /\ successful_conversions = <<>>
    /\ calls = <<>>
    /\ mpc = "idle" /\ exit_code = -1

NextThrottle == ReadLine \/ Wait \/ JoinReader \/ Interpret

SpecThrottle == InitThrottle /\ [][NextThrottle]_vars

(***************************************************************************)
(* main: the command-line entry point.                                     *)
(***************************************************************************)
\* what running "ffmpeg -version" may do
FfmpegChecks == {"ok", "nonzero_exit", "timeout", "not_found"}

\* _check_ffmpeg: True when the command ran and exited with 0
CheckFfmpeg(outcome) == outcome = "ok"

\* cli_progress_callback prints, and a print may raise (a closed stdout, a
\* console that cannot encode the message)
CliSinks == {"returns", "may_raise"}

\* the values argparse lets through for --quality
CliQualities == DOMAIN quality_settings

\* the exit code of the single-file branch (lines 503-515, 517-519): an
\* exception is caught and exits with 1, a False result exits with 1, and
\* main returns otherwise
SingleExitCode(raised, ret) == IF raised \/ ret # "True" THEN 1 ELSE 0

\* the exit code of the batch branch (lines 492-501, 517-519): an exception
\* is caught and exits with 1; otherwise the count is printed and main returns
BatchExitCode(raised, successes) == IF raised THEN 1 ELSE 0

\* lines 455-491: the arguments are parsed and the converter is made; its
\* constructor raises RuntimeError when ffmpeg is not usable
MainStart ==
    /\ mpc = "idle"
    /\ pc = "idle"
    /\ bpc = "idle"
    /\ \E batch \in BOOLEAN, outcome \in FfmpegChecks :
         IF CheckFfmpeg(outcome)
         THEN /\ mpc' = IF batch THEN "batch" ELSE "single"
              /\ UNCHANGED exit_code
         ELSE /\ mpc' = "exited"
              /\ exit_code' = 1
    /\ UNCHANGED <<envVars, pc, argVars, localVars, childVars, superVars, obsVars,
                   batchVars>>

\* lines 503-510: the call of convert_rmvb_to_mp4 with cli_progress_callback
MainSingleCall ==
    /\ mpc = "single"
    /\ CallConvert
    /\ progress_callback' \in CliSinks
    /\ quality' \in CliQualities

\* lines 511-519: the end of the single-file branch
MainSingleExit ==
    /\ mpc = "single"
    /\ Done
    /\ exit_code' = SingleExitCode(pc = "raised", retval)
    /\ mpc' = "exited"
    /\ UNCHANGED <<envVars, pc, argVars, localVars, childVars, superVars, obsVars,
                   batchVars>>

\* lines 492-500: the call of batch_convert_rmvb_to_mp4 with
\* cli_progress_callback
MainBatchCall ==
    /\ mpc = "batch"
    /\ CallBatch
    /\ progress_callback' \in CliSinks
    /\ quality' \in CliQualities

\* lines 501, 517-519: the end of the batch branch
MainBatchExit ==
    /\ mpc = "batch"
    /\ bpc \in {"done", "raised"}
    /\ exit_code' = BatchExitCode(bpc = "raised", successful_conversions)
    /\ mpc' = "exited"
    /\ UNCHANGED <<envVars, pc, argVars, localVars, childVars, superVars, obsVars,
                   batchVars>>

NextMain ==
    \/ MainStart
    \/ MainSingleCall
    \/ (mpc = "single" /\ ConvertSteps)
    \/ MainSingleExit
    \/ MainBatchCall
    \/ (mpc = "batch" /\ BatchSteps)
    \/ MainBatchExit

SpecMain == Init /\ [][NextMain]_vars

(***************************************************************************)
(* Properties of one call of convert_rmvb_to_mp4.                          *)
(***************************************************************************)
\* the supervisor returned an outcome to convert_rmvb_to_mp4
Supervised == result # NoResult

IsSentinel(e) == e.pct = PctError

InputExistedAtCall == Exists(input_file, atCall.fs, caseSensitive)
OutputExistedAtCall == Exists(OutputPath, atCall.fs, caseSensitive)

\* C1 as claimed: the percentages of all sink invocations of a call are
\* non-decreasing and at most 100, whatever the child's exit code.
C1_AllValuesNonDecreasing ==
    /\ \A i \in DOMAIN sinkLog : RatLe(sinkLog[i].pct, PctDone)
    /\ \A i, j \in DOMAIN sinkLog : i < j => RatLe(sinkLog[i].pct, sinkLog[j].pct)

\* C1 as amended: leaving the error sentinel -1 out, the percentages of the
\* sink invocations of a call are non-decreasing and every value is at most
\* 100; a sentinel event is followed by sentinel events only.
C1_PercentagesNonDecreasing ==
    /\ \A i \in DOMAIN sinkLog : RatLe(sinkLog[i].pct, PctDone)
    /\ \A i, j \in DOMAIN sinkLog :
         (i < j /\ ~IsSentinel(sinkLog[i]) /\ ~IsSentinel(sinkLog[j]))
           => RatLe(sinkLog[i].pct, sinkLog[j].pct)
    /\ \A i, j \in DOMAIN sinkLog :
         (i < j /\ IsSentinel(sinkLog[i])) => IsSentinel(sinkLog[j])

\* a call that sent the 0% event, two throttled events and, the child having
\* exited with 1, the sentinel
C1_Witness ==
    /\ pc = "returned"
    /\ returncode = 1
    /\ Len(sinkLog) = 4
    /\ sinkLog[1].msg = "start"
    /\ sinkLog[2].msg = "progress"
    /\ sinkLog[3].msg = "progress"
    /\ IsSentinel(sinkLog[4])

\* C2 as claimed: the call yields True exactly when ffmpeg was started for
\* it and the exit code the supervisor collected is 0, whatever the sink does.
C2_TrueIffExitZero ==
    Done => (retval = "True" <=> (launched # <<>> /\ Supervised /\ result.returncode = 0))

\* C3 as claimed: no exception leaves convert_rmvb_to_mp4.
C3_NoExceptionEscapes == pc # "raised"

\* C4: a call whose input path does not exist returns False, and neither the
\* duration probe nor the supervisor runs: no child is started.
C4_MissingInputFailsFast ==
    (pc # "idle" /\ input_file \notin denied /\ ~InputExistedAtCall)
      => /\ pc \in {"check_input", "returned"}
         /\ pc = "returned" => retval = "False"
         /\ probeCalls = 0
         /\ launched = <<>>
         /\ childState = "none"
         /\ readerState = "none"

C4_Witness ==
    /\ pc = "returned"
    /\ retval = "False"
    /\ ~InputExistedAtCall
    /\ input_file \notin denied

\* C5: with the output path there and overwrite false the call returns False
\* and ffmpeg is never started; with overwrite true the existing output does
\* not end the call at the check, and every command started holds -y (and a
\* command holds -y only then).
C5_ExistingOutput ==
    /\ (pc # "idle" /\ OutputExistedAtCall /\ ~overwrite)
         => /\ launched = <<>>
            /\ childState = "none"
            /\ pc = "returned" => retval = "False"
    /\ (OutputExistedAtCall /\ InputExistedAtCall /\ overwrite /\ pc = "returned")
         => mkdirs # {}
    /\ \A i \in DOMAIN launched : HasArg(launched[i], "-y") <=> overwrite

\* the output was there, overwrite was asked for, and the call succeeded
\* with a command holding -y
C5_Witness ==
    /\ pc = "returned"
    /\ retval = "True"
    /\ OutputExistedAtCall
    /\ overwrite
    /\ Len(launched) = 1
    /\ HasArg(launched[1], "-y")

\* C6 as claimed, for a sink that returns normally: when the child exited
\* with a nonzero code, the call returns False, the sink got the sentinel
\* exactly once, with a message holding all the child wrote to stderr, and
\* no 100% completion event.
C6_FailureCarriesDiagnostics ==
    (pc = "returned" /\ progress_callback = "returns" /\ Supervised
       /\ result.returncode # 0)
      => /\ retval = "False"
         /\ Cardinality({i \in DOMAIN sinkLog : IsSentinel(sinkLog[i])}) = 1
         /\ \A i \in DOMAIN sinkLog :
              IsSentinel(sinkLog[i]) => Contains(sinkLog[i].text, Join(errWritten))
         /\ \A i \in DOMAIN sinkLog : sinkLog[i].msg # "done"

\* C7: the completion event (100.0, the completion message) is only sent
\* once the child has exited, and its exit code is 0.
C7_DoneOnlyAfterExitZero ==
    \A i \in DOMAIN sinkLog :
        sinkLog[i].msg = "done" => (childState = "exited" /\ returncode = 0)

\* the completion event was sent after the primary thread had left the
\* loop on the end marker with a line still unread in the pipe
C7_Witness ==
    /\ \E i \in DOMAIN sinkLog : sinkLog[i].msg = "done"
    /\ retval = "True"
    /\ outPipe # <<>>

\* C8 as claimed: the outcome the supervisor returns holds the child's exit
\* code and all the lines the child wrote to stderr, in order.
C8_OutcomeHoldsAllStderr ==
    Supervised => /\ result.returncode = returncode
                  /\ result.stderr = Join(errWritten)

(***************************************************************************)
(* Properties of one call of batch_convert_rmvb_to_mp4.                    *)
(***************************************************************************)
\* how often the batch called convert_rmvb_to_mp4 on file f
CallsOn(f) == Cardinality({i \in DOMAIN calls : calls[i].input = f})

RECURSIVE TrueOutputs(_)
\* the output paths of the calls that returned True, in the order of the calls
TrueOutputs(cs) ==
    IF cs = <<>> THEN <<>>
    ELSE (IF Head(cs).ret = "True" THEN <<Head(cs).output>> ELSE <<>>)
         \o TrueOutputs(Tail(cs))

\* C9 as claimed: a batch that returned has called convert_rmvb_to_mp4
\* exactly once on every file of the input directory whose extension is
\* .rmvb in any letter case, and on no other file.
C9_OncePerRmvbFile ==
    bpc = "done"
      => \A f \in atCall.fs :
           Dir(f) = input_dir
             => CallsOn(f) = IF Lower(Suffix(f)) = ExtRmvb THEN 1 ELSE 0

\* C10: a call that returns False does not end the batch.  The loop is only
\* left early by an exception; a batch that returns has called
\* convert_rmvb_to_mp4 on every enumerated file, in order, and returns the
\* output paths of the calls that returned True, in that order.
C10_FailureDoesNotStopBatch ==
    /\ bpc \in {"loop", "done", "raised"}
         => /\ Len(calls) <= Len(rmvb_files)
            /\ \A i \in DOMAIN calls : calls[i].input = rmvb_files[i]
            /\ \A i \in DOMAIN calls : i < Len(calls) => calls[i].ret # "raised"
    /\ bpc = "loop" => Len(calls) = idx - 1
    /\ (bpc = "raised" /\ calls # <<>>) => calls[Len(calls)].ret = "raised"
    /\ bpc = "done"
         => /\ Len(calls) = Len(rmvb_files)
            /\ \A i \in DOMAIN calls : calls[i].ret \in {"True", "False"}
            /\ successful_conversions = TrueOutputs(calls)

\* a batch that returned after a call that returned False was followed by a
\* call that returned True
C10_Witness ==
    /\ bpc = "done"
    /\ \E i, j \in DOMAIN calls :
         i < j /\ calls[i].ret = "False" /\ calls[j].ret = "True"
    /\ successful_conversions # <<>>

(***************************************************************************)
(* Properties of main.                                                     *)
(***************************************************************************)
\* C11 as claimed: main ends with exit code 0 exactly when the run
\* succeeded: in single-file mode when convert_rmvb_to_mp4 returned True, in
\* batch mode when batch_convert_rmvb_to_mp4 returned at least one converted
\* file; it ends with 1 on a failure and on an exception.
C11_ExitCodeTellsSuccess ==
    mpc = "exited"
      => /\ exit_code \in {0, 1}
         /\ exit_code = 0
              <=> \/ pc = "returned" /\ retval = "True"
                  \/ bpc = "done" /\ successful_conversions # <<>>

(***************************************************************************)
(* Further properties of one call of convert_rmvb_to_mp4.                  *)
(***************************************************************************)
\* the percentage events of the supervisor's loop
ProgressEvents == {i \in DOMAIN sinkLog : sinkLog[i].msg = "progress"}

\* C12 as claimed: a failure of the duration probe, of whatever kind, is no
\* exception and does not end the call: _get_video_duration yields None, the
\* duration is taken as 0, ffmpeg is still launched (the call ends without a
\* child only when Popen itself failed), the supervisor makes no percentage
\* sink call, and the value returned is True exactly when the child exited
\* with 0, whatever the sink does.
C12_ProbeFailureDegrades ==
    /\ \A o \in ProbeOutcomes :
         o.kind \in ProbeFailures => ~GetVideoDuration(o).known
    /\ probed = "failed"
         => /\ total_duration = 0
            /\ pc # "probe"
            /\ ProgressEvents = {}
            /\ last_progress = 0
            /\ Done => (launched # <<>> \/ exc = "OSError")
            /\ (Done /\ launched # <<>>)
                 => (pc = "returned" /\ (retval = "True" <=> returncode = 0))

\* the events of the handlers and of the verdict: every event but the 0%
\* event and the supervisor's percentage events
TerminalEvents ==
    {i \in DOMAIN sinkLog : sinkLog[i].msg \in {"done", "failed", "error", "timeout"}}

\* C13: with a sink that returns normally, the 0% event is the first event
\* and is sent before the child is started; once ffmpeg was launched the log
\* holds exactly one 0% event; no terminal event is sent before the
\* supervisor returned; and a call that returned has sent exactly one
\* terminal event, as its last event: (100, done) when the exit code is 0,
\* the sentinel (-1, failed) otherwise.  Neither event depends on the throttle.
C13_StartAndTerminalEvents ==
    progress_callback = "returns"
      => /\ pc = "popen"
              => (sinkLog = <<Event(PctStart, "start", <<>>, FALSE)>>
                    /\ childState = "none")
         /\ launched # <<>>
              => /\ sinkLog # <<>>
                 /\ sinkLog[1] = Event(PctStart, "start", <<>>, FALSE)
                 /\ \A i \in DOMAIN sinkLog : sinkLog[i].msg = "start" => i = 1
                 /\ TerminalEvents # {} => (Supervised /\ pc = "returned")
                 /\ pc = "returned"
                      => /\ TerminalEvents = {Len(sinkLog)}
                         /\ sinkLog[Len(sinkLog)].msg =
                              IF returncode = 0 THEN "done" ELSE "failed"
                         /\ sinkLog[Len(sinkLog)].pct =
                              IF returncode = 0 THEN PctDone ELSE PctError

\* the supervisor's last percentage event was already 100%, and the
\* completion event (100, done) followed it all the same
C13_Witness ==
    /\ progress_callback = "returns"
    /\ pc = "returned"
    /\ Len(sinkLog) >= 3
    /\ sinkLog[Len(sinkLog) - 1].msg = "progress"
    /\ sinkLog[Len(sinkLog) - 1].pct = Pct(100 * total_duration, total_duration)
    /\ sinkLog[Len(sinkLog)] = Event(PctDone, "done", <<>>, FALSE)

(***************************************************************************)
(* Properties of the supervisor's loop.                                    *)
(***************************************************************************)
IsProgressEvent(e) == e.msg = "progress"

\* the percentage of the most recent percentage event, 0 before any, as a
\* numerator over total_duration
LastReported ==
    LET sent == SelectSeq(sinkLog, IsProgressEvent)
    IN  IF sent = <<>> THEN 0 ELSE sent[Len(sent)].pct[1]

\* one turn of the loop on the line at the head of the stream: the sink is
\* invoked exactly when the line holds a timestamp and p - last >= 1.0, with
\* p = min(time / duration * 100, 100); an invocation reports p and makes it
\* the new last; without one last stays; a p below last changes nothing
ThrottledTurn ==
    (pc = "read" /\ outPipe # <<>> /\ outPipe' = Tail(outPipe))
      => LET t == ParseFfmpegProgress(Head(outPipe))
             full == 100 * total_duration
             p == IF t.seconds * 100 <= full THEN t.seconds * 100 ELSE full
             due == t.matched /\ p - last_progress >= total_duration
         IN  /\ sinkLog' # sinkLog <=> due
             /\ due => /\ sinkLog' = Append(sinkLog,
                                 Event(Pct(p, total_duration), "progress", <<>>, FALSE))
                       /\ last_progress' = p
             /\ ~due => last_progress' = last_progress
             /\ (t.matched /\ p < last_progress)
                  => UNCHANGED <<sinkLog, last_progress>>

AllLines == StdoutLines \cup ThrottleLines
AllDurations == ProbeDurations \cup {ThrottleDuration}

\* a turn of the loop on a line whose timestamp is at or beyond the duration,
\* with less than 99% reported so far, reports exactly 100%
ClampedTurn ==
    (pc = "read" /\ outPipe # <<>> /\ outPipe' = Tail(outPipe)
       /\ ParseFfmpegProgress(Head(outPipe)).matched
       /\ ParseFfmpegProgress(Head(outPipe)).seconds >= total_duration
       /\ last_progress <= 99 * total_duration)
      => /\ last_progress' = 100 * total_duration
         /\ sinkLog' = Append(sinkLog, Event(Pct(100 * total_duration, total_duration),
                                             "progress", <<>>, FALSE))

\* C15: for every timestamp the parser yields and every duration > 0 the
\* percentage min(time / duration * 100, 100) is at least 0 and at most 100,
\* and it is exactly 100 when the time is at or beyond the duration; the
\* parser yields no negative time.  So every percentage the loop reports and
\* keeps lies in [0, 100].
C15_PercentageClamped ==
    /\ [](\A line \in AllLines, d \in AllDurations :
            LET t == ParseFfmpegProgress(line)
                p == ProgressOf(t.seconds, d)
            IN  /\ t.seconds >= 0
                /\ d > 0
                /\ 0 <= p /\ p <= 100 * d
                /\ t.seconds >= d => p = 100 * d
                /\ t.seconds < d => p = 100 * t.seconds)
    /\ [](/\ 0 <= last_progress
          /\ last_progress <= 100 * total_duration
          /\ \A i \in DOMAIN sinkLog :
               /\ RatLe(sinkLog[i].pct, PctDone)
               /\ ~IsSentinel(sinkLog[i]) => RatLe(PctStart, sinkLog[i].pct))
    /\ [][ClampedTurn]_vars

\* a line with a timestamp of 120% of the duration was read and 100% was
\* reported for it
C15_Witness ==
    /\ pc = "read"
    /\ outPipe = <<>>
    /\ last_progress = 100 * total_duration
    /\ sinkLog = << Event(PctStart, "start", <<>>, FALSE),
                    Event(Pct(100 * total_duration, total_duration), "progress",
                          <<>>, FALSE) >>

\* the call is on the first fail-fast path: the input path does not exist
MissingInputPath == input_file \notin denied /\ ~InputExistedAtCall

\* the call is on the second fail-fast path: the input is there, the output
\* path exists and overwrite is false
ExistingOutputPath ==
    /\ input_file \notin denied
    /\ InputExistedAtCall
    /\ OutputPath \notin denied
    /\ OutputExistedAtCall
    /\ ~overwrite

\* C20: on both fail-fast paths the call does nothing but return False: the
\* sink is never invoked (no 0% event, no sentinel), mkdir is not called and
\* no directory or file appears, and neither the probe nor ffmpeg is started.
C20_FailFastLeavesNoTrace ==
    (pc # "idle" /\ (MissingInputPath \/ ExistingOutputPath))
      => /\ sinkLog = <<>>
         /\ mkdirs = {}
         /\ dirs = atCall.dirs
         /\ fs = atCall.fs
         /\ probeCalls = 0
         /\ probed = "none"
         /\ launched = <<>>
         /\ childState = "none"
         /\ readerState = "none"
         /\ pc \in {"check_input", "check_output", "returned"}
         /\ pc = "returned" => retval = "False"

\* a call with a sink, an existing output and overwrite false has returned
C20_Witness ==
    /\ pc = "returned"
    /\ retval = "False"
    /\ ExistingOutputPath
    /\ progress_callback # None
    /\ sinkLog = <<>>

(***************************************************************************)
(* Properties of the supervisor and its two readers.                       *)
(***************************************************************************)
\* the primary thread is inside _run_ffmpeg_with_progress
InSupervisor == pc \in {"read", "wait", "join"}

\* C16 as claimed: while the primary thread is inside
\* _run_ffmpeg_with_progress, a child that is blocked on a write to the full
\* progress pipe has the primary thread still reading that pipe, and a child
\* that is blocked on a write to the full diagnostic pipe has the stderr
\* thread still reading that one; also after the primary thread left its
\* loop on a 'progress=end' line and waits for the child to exit.
C16_NoWriterBlockedForever ==
    InSupervisor
      => /\ childState = "blocked_out" => pc = "read"
         /\ childState = "blocked_err" => readerState = "running"

\* C17 as claimed: under fair scheduling, with a child that exits after
\* finitely many writes unless a write of it is blocked forever, a
\* supervisor that has started the child eventually returns an outcome that
\* holds the child's exit code.
C17_SupervisorReturns ==
    (pc = "read") ~> (Supervised /\ childState = "exited"
                        /\ result.returncode = returncode)

\* C18 as claimed: once _run_ffmpeg_with_progress has returned, the child
\* has exited, no line it wrote to stdout or to stderr is left unread in a
\* pipe, every line it wrote to stderr is in stderr_output, and the stderr
\* thread has finished.
C18_DrainedOnReturn ==
    Supervised
      => /\ childState = "exited"
         /\ outPipe = <<>>
         /\ errPipe = <<>>
         /\ stderr_output = errWritten
         /\ readerState = "done"

====
